---- MODULE Spec2Model ----
(***************************************************************************)
(* The "Exclusive Drop" waitlist server: an Express application over a     *)
(* MongoDB collection of orders.  The repository holds three builds of the *)
(* server: exclusive-drop/server/src/index.ts ("index"), unnamed/part_003  *)
(* ("p003") and the server at the end of unnamed/part_002 ("p002").  The   *)
(* variable variant says which build is running; it never changes.         *)
(*                                                                         *)
(* A client is a rate-limiter key (req.ip).  Each client has at most one   *)
(* request in flight.  A store operation (countDocuments, find, save,      *)
(* deleteMany) is atomic: it either takes effect and resolves, or rejects  *)
(* without effect.  A run lies inside one window of each rate limiter, so  *)
(* no counter of a limiter is reset during it.                              *)
(***************************************************************************)
EXTENDS Integers, Sequences, FiniteSets, TLC

\* ---------------------------------------------------------------- bounds
NumClients == 2
MaxRequests == 2
MaxTicks == 1

\* ------------------------------------------------------ program constants
CAPACITY == 5
BuyMax == 10
ApiMax == 100
MinLen == 5
MaxLen == 100
TldMin == 2
TldMax == 4

Clients == 1..NumClients
Variants == {"index", "p003", "p002"}

VARIABLES variant, orders, now, nextId, pc, doc, seen, hits, apiHits,
          budget, event, fresh, okJoins, joinedAt, resetLog, stale, peak

vars == <<variant, orders, now, nextId, pc, doc, seen, hits, apiHits,
          budget, event, fresh, okJoins, joinedAt, resetLog, stale, peak>>

\* ------------------------------------------------------------ characters
\* The part of each regex character class that the emails of the model use.
Letters == {"a", "b", "c", "d", "o"}
Digits == {"1"}
Space == " "

\* \w of a JavaScript regex: [A-Za-z0-9_]
IsWord(ch) == ch \in Letters \cup Digits \cup {"_"}
\* [\w-\.] : the local part of index.ts
IsLocalIndex(ch) == IsWord(ch) \/ ch \in {"-", "."}
\* [\w-] : a domain label of index.ts
IsLabelIndex(ch) == IsWord(ch) \/ ch = "-"
\* [a-zA-Z0-9._%+-] : the local part of part_003
IsLocalP003(ch) == ch \in Letters \cup Digits \cup {".", "_", "%", "+", "-"}
\* [a-zA-Z0-9.-] : the domain of part_003
IsDomainP003(ch) == ch \in Letters \cup Digits \cup {".", "-"}
\* [a-zA-Z] : the top-level domain of part_003
IsAlpha(ch) == ch \in Letters

Sub(s, i, j) == [k \in 1..(j - i + 1) |-> s[i + k - 1]]

\* ---------------------------------------------------------------- emails
EmailAB == <<"a", "@", "b", ".", "c", "o">>
EmailPadded == <<" ", "a", "@", "b", ".", "c", "o">>
EmailNoAt == <<"a", "b">>
EmailEmpty == <<>>

\* A request body: given is FALSE when the body has no email field.
Body(e) == [given |-> TRUE, email |-> e]
NoEmail == [given |-> FALSE, email |-> <<>>]
Bodies == {NoEmail, Body(EmailEmpty), Body(EmailNoAt), Body(EmailAB),
           Body(EmailPadded)}

\* /^[\w-\.]+@([\w-]+\.)+[\w-]{2,4}$/
MatchIndex(s) ==
    \E at \in 1..Len(s) :
        /\ s[at] = "@"
        /\ at > 1
        /\ \A i \in 1..(at - 1) : IsLocalIndex(s[i])
        /\ \E dot \in (at + 1)..Len(s) :
              /\ s[dot] = "."
              /\ Len(s) - dot >= TldMin
              /\ Len(s) - dot <= TldMax
              /\ \A i \in (dot + 1)..Len(s) : IsLabelIndex(s[i])
              /\ \A i \in (at + 1)..(dot - 1) : IsLabelIndex(s[i]) \/ s[i] = "."
              \* every label before a dot is non-empty
              /\ s[at + 1] # "."
              /\ \A i \in (at + 1)..(dot - 1) : s[i] = "." => s[i + 1] # "."

\* /^[a-zA-Z0-9._%+-]+@[a-zA-Z0-9.-]+\.[a-zA-Z]{2,}$/
MatchP003(s) ==
    \E at \in 1..Len(s) :
        /\ s[at] = "@"
        /\ at > 1
        /\ \A i \in 1..(at - 1) : IsLocalP003(s[i])
        /\ \E dot \in (at + 1)..Len(s) :
              /\ s[dot] = "."
              /\ dot > at + 1
              /\ \A i \in (at + 1)..(dot - 1) : IsDomainP003(s[i])
              /\ Len(s) - dot >= TldMin
              /\ \A i \in (dot + 1)..Len(s) : IsAlpha(s[i])

\* String.prototype.trim, as zod's .trim() applies it
RECURSIVE TrimLeft(_)
TrimLeft(s) == IF s # <<>> /\ Head(s) = Space THEN TrimLeft(Tail(s)) ELSE s
RECURSIVE TrimRight(_)
TrimRight(s) ==
    IF s # <<>> /\ s[Len(s)] = Space THEN TrimRight(Sub(s, 1, Len(s) - 1)) ELSE s
Trim(s) == TrimRight(TrimLeft(s))

\* BuySchema.safeParse(req.body) of each build: [ok, email]
ParseIndex(b) ==
    [ok |-> /\ b.given
            /\ MatchIndex(b.email)
            /\ Len(b.email) >= MinLen
            /\ Len(b.email) <= MaxLen,
     email |-> b.email]
ParseP003(b) ==
    [ok |-> b.given /\ MatchP003(Trim(b.email)), email |-> Trim(b.email)]
\* part_002 has no schema: const { email } = req.body
ParseP002(b) == [ok |-> TRUE, email |-> b.email]
SafeParse(v, b) ==
    IF v = "index" THEN ParseIndex(b)
    ELSE IF v = "p003" THEN ParseP003(b) ELSE ParseP002(b)

\* email: { type: String, required: true }: what save() validates before it writes
SchemaRequiredOK(v, b) == b.given /\ SafeParse(v, b).email # <<>>

\* ------------------------------------------------------------ the store
\* A document of the Order model: createdAt is set when the document is
\* constructed (new Order({ email })), before save() writes it.  id stands for
\* _id: the number of the insert.
NewOrder(id, email, t) == [id |-> id, email |-> email, createdAt |-> t]

NoOrder == NewOrder(0, <<>>, 0)

\* mutant of CountDocuments: the count misses the latest document
CountOneShort(o) == IF o = <<>> THEN 0 ELSE Len(o) - 1

\* Order.countDocuments()
CountDocuments(o) == Len(o)

\* mutant of Save: the document is written twice
SaveTwice(o, d) == Append(Append(o, d), d)

\* mutant of Save: save() resolves and nothing is written
SaveDropped(o, d) == o

\* mutant of Save: the document replaces the latest one when there is one
SaveOverLatest(o, d) == IF o = <<>> THEN <<d>> ELSE [o EXCEPT ![Len(o)] = d]

\* mutant of Save: a document whose email is stored already is not written
SaveUnique(o, d) ==
    IF \E i \in DOMAIN o : o[i].email = d.email THEN o ELSE Append(o, d)

\* newOrder.save(): one insert
Save(o, d) == Append(o, d)

\* mutant of DeleteMany: deleteOne, only the first document goes
DeleteOne(o) == IF o = <<>> THEN <<>> ELSE Tail(o)

\* mutant of DeleteMany: at most CAPACITY documents are deleted
DeleteManyCapped(o) == SubSeq(o, CAPACITY + 1, Len(o))

\* Order.deleteMany({})
DeleteMany(o) == <<>>

Max(a, b) == IF a >= b THEN a ELSE b
Min(a, b) == IF a <= b THEN a ELSE b

\* Order.find().sort({ createdAt: -1 }): every order of the documents in which
\* createdAt never increases; documents with equal createdAt come in any order.
RECURSIVE SortedFrom(_, _)
SortedFrom(o, idx) ==
    IF idx = {} THEN {<<>>}
    ELSE LET top == {i \in idx : \A j \in idx : o[i].createdAt >= o[j].createdAt}
         IN  UNION {{<<o[i]>> \o r : r \in SortedFrom(o, idx \ {i})} : i \in top}
\* mutant of FindSorted: find() without the sort, in order of insertion
FindNatural(o) == {o}

FindSorted(o) == SortedFrom(o, DOMAIN o)

\* ------------------------------------------------------- inventory policy
\* mutant of StatusOf: remaining is not clamped at 0
StatusOfUnclamped(count) ==
    [remaining |-> CAPACITY - count, soldOut |-> count >= CAPACITY]

\* mutant of StatusOf: sold out only at exactly LIMIT
StatusOfExactly(count) ==
    [remaining |-> IF count >= CAPACITY THEN 0 ELSE CAPACITY - count,
     soldOut |-> count = CAPACITY]

\* { remaining: Math.max(0, LIMIT - count), soldOut: count >= LIMIT }
StatusOf(count) ==
    [remaining |-> Max(0, CAPACITY - count), soldOut |-> count >= CAPACITY]

\* mutant of SoldOut: count > 5
SoldOutAbove(count) == count > CAPACITY

\* if (count >= 5) return res.status(400)...
SoldOut(count) == count >= CAPACITY

\* ------------------------------------------------------------ rate limits
\* mutant of Exceeds: the request that reaches max is refused already
ExceedsFromMax(h, max) == h + 1 >= max

\* express-rate-limit: the request is counted, then refused when the count
\* of the window exceeds max.  The model's counter stops at max + 1.
Exceeds(h, max) == h + 1 > max
Counted(h, max) == Min(h + 1, max + 1)

\* app.use("/api/", apiLimiter): index.ts only, before every route
ApiLimited(c) == variant = "index" /\ Exceeds(apiHits[c], ApiMax)
ApiCounted(c) ==
    IF variant = "index"
    THEN [apiHits EXCEPT ![c] = Counted(apiHits[c], ApiMax)]
    ELSE apiHits

\* buyLimiter / buyActionLimiter: on POST /api/buy only
BuyLimited(c) == Exceeds(hits[c], BuyMax)
BuyCounted(c) == [hits EXCEPT ![c] = Counted(hits[c], BuyMax)]

\* ----------------------------------------------------------------- events
\* event is what the step that led to the state answered: the response of the
\* request it completed (code 0: the handler ended without a response), or
\* NoEvent when the step completed no request.
NoEvent ==
    [op |-> "none", client |-> 0, code |-> 0, kind |-> "none", store |-> "none",
     remaining |-> 0, soldOut |-> FALSE, list |-> <<>>, email |-> <<>>, seen |-> 0]
Response(op, c, code, kind, store) ==
    [NoEvent EXCEPT !.op = op, !.client = c, !.code = code, !.kind = kind,
                    !.store = store]

\* -------------------------------------------------------------- history
\* What the run has done so far, recorded for the properties; no handler reads it.
\* joinedAt: the count of the store when the latest insert was written, NoJoin
\*           when no insert has been written since the start or the last reset.
\* resetLog: what each completed reset deleted (deleteMany's deletedCount), for
\*           the resets completed since the latest insert.
\* stale[c]: the join of c is between its countDocuments() and its save(), and
\*           an insert or a reset has been written since it read the count.
\* peak:     the largest number of joins that were between their
\*           countDocuments() and their save() at the same time.
NoJoin == 0 - 1
InFlight(p) == Cardinality({c \in Clients : p[c] = "save"})
StaleAfterWrite(c) == [d \in Clients |-> d # c /\ pc[d] = "save"]

\* ---------------------------------------------------------------- Init
\* The store is durable and the limiters count in memory.  A run starts in a
\* state the server reaches: the store holds earlier registrations, written one
\* per clock reading; client 1 has used all but one request of its join window
\* and, in index.ts, none or all but one of its /api/ window; client 2 is idle
\* or has a join in flight that read the count and awaits its save().
InitCounts == {0, CAPACITY - 1}
InitJoining == {{}, {2} \cap Clients}
InitApiHits == {0, ApiMax - 1}

Init ==
    /\ variant \in Variants
    /\ \E n \in InitCounts :
          /\ orders = [i \in 1..n |-> NewOrder(i, EmailAB, i - 1)]
          /\ nextId = n + 1
          /\ okJoins = n
    /\ now = CAPACITY
    /\ \E J \in InitJoining, a \in InitApiHits :
          /\ pc = [c \in Clients |-> IF c \in J THEN "save" ELSE "idle"]
          /\ doc = [c \in Clients |->
                      IF c \in J THEN NewOrder(0, EmailAB, now) ELSE NoOrder]
          /\ seen = [c \in Clients |-> IF c \in J THEN Len(orders) ELSE 0]
          /\ hits = [c \in Clients |->
                       IF c = 1 THEN BuyMax - 1 ELSE IF c \in J THEN 1 ELSE 0]
          /\ apiHits = [c \in Clients |->
                          IF variant # "index" THEN 0
                          ELSE IF c = 1 THEN a ELSE IF c \in J THEN 1 ELSE 0]
    /\ budget = MaxRequests
    /\ event = NoEvent
    /\ fresh = [status |-> FALSE, list |-> FALSE, clean |-> FALSE]
    /\ joinedAt = NoJoin
    /\ resetLog = <<>>
    /\ stale = [c \in Clients |-> FALSE]
    /\ peak = InFlight(pc)

\* A new request of client c enters the middleware chain.
Accept(c) ==
    /\ pc[c] = "idle"
    /\ budget > 0
    /\ budget' = budget - 1
    /\ apiHits' = ApiCounted(c)

\* ------------------------------------------------------- GET /api/status
StatusLimited(c) ==
    /\ Accept(c)
    /\ ApiLimited(c)
    /\ event' = Response("status", c, 429, "apilimit", "none")
    /\ UNCHANGED <<variant, orders, now, nextId, pc, doc, seen, hits,
                   fresh, okJoins, joinedAt, resetLog, stale, peak>>

StatusOK(c) ==
    /\ Accept(c)
    /\ ~ApiLimited(c)
    /\ LET s == StatusOf(CountDocuments(orders))
       IN  event' = [Response("status", c, 200, "status", "ok") EXCEPT
                         !.remaining = s.remaining, !.soldOut = s.soldOut]
    /\ fresh' = [fresh EXCEPT !.status = FALSE]
    /\ UNCHANGED <<variant, orders, now, nextId, pc, doc, seen, hits,
                   okJoins, joinedAt, resetLog, stale, peak>>

StatusFail(c) ==
    /\ Accept(c)
    /\ ~ApiLimited(c)
    /\ event' = Response("status", c, 500, "error", "fail")
    /\ UNCHANGED <<variant, orders, now, nextId, pc, doc, seen, hits,
                   fresh, okJoins, joinedAt, resetLog, stale, peak>>

\* ------------------------------------------------------- GET /api/orders
OrdersLimited(c) ==
    /\ Accept(c)
    /\ ApiLimited(c)
    /\ event' = Response("orders", c, 429, "apilimit", "none")
    /\ UNCHANGED <<variant, orders, now, nextId, pc, doc, seen, hits,
                   fresh, okJoins, joinedAt, resetLog, stale, peak>>

OrdersOK(c) ==
    /\ Accept(c)
    /\ ~ApiLimited(c)
    /\ \E l \in FindSorted(orders) :
          event' = [Response("orders", c, 200, "orders", "ok") EXCEPT !.list = l]
    /\ fresh' = [fresh EXCEPT !.list = FALSE]
    /\ UNCHANGED <<variant, orders, now, nextId, pc, doc, seen, hits,
                   okJoins, joinedAt, resetLog, stale, peak>>

OrdersFail(c) ==
    /\ Accept(c)
    /\ ~ApiLimited(c)
    /\ event' = Response("orders", c, 500, "error", "fail")
    /\ UNCHANGED <<variant, orders, now, nextId, pc, doc, seen, hits,
                   fresh, okJoins, joinedAt, resetLog, stale, peak>>

\* --------------------------------------------------------- POST /api/buy
\* The handler runs in two steps.  The first is the middleware, the parse and
\* countDocuments with the code that follows it up to the call of save(); the
\* second is the write of save() with the response.  Between the two, other
\* requests run.

\* the limiters let the request through and count it
BuyAdmitted(c) ==
    /\ Accept(c)
    /\ ~ApiLimited(c)
    /\ ~BuyLimited(c)
    /\ hits' = BuyCounted(c)

\* refused by apiLimiter: buyLimiter is not reached
BuyApiLimited(c) ==
    /\ Accept(c)
    /\ ApiLimited(c)
    /\ event' = Response("buy", c, 429, "apilimit", "none")
    /\ UNCHANGED <<variant, orders, now, nextId, pc, doc, seen, hits, fresh,
                   okJoins, joinedAt, resetLog, stale, peak>>

\* refused by buyLimiter with its message
BuyRateLimited(c) ==
    /\ Accept(c)
    /\ ~ApiLimited(c)
    /\ BuyLimited(c)
    /\ hits' = BuyCounted(c)
    /\ event' = Response("buy", c, 429, "buylimit", "none")
    /\ UNCHANGED <<variant, orders, now, nextId, pc, doc, seen, fresh, okJoins,
                   joinedAt, resetLog, stale, peak>>

\* if (!result.success) return res.status(400)...
BuyInvalid(c, b) ==
    /\ BuyAdmitted(c)
    /\ ~SafeParse(variant, b).ok
    /\ event' = Response("buy", c, 400, "validation", "none")
    /\ UNCHANGED <<variant, orders, now, nextId, pc, doc, seen, fresh, okJoins,
                   joinedAt, resetLog, stale, peak>>

\* countDocuments rejects: catch -> 500
BuyCountFail(c, b) ==
    /\ BuyAdmitted(c)
    /\ SafeParse(variant, b).ok
    /\ event' = Response("buy", c, 500, "error", "fail")
    /\ UNCHANGED <<variant, orders, now, nextId, pc, doc, seen, fresh, okJoins,
                   joinedAt, resetLog, stale, peak>>

\* count >= 5: 400 sold out
BuySoldOut(c, b) ==
    /\ BuyAdmitted(c)
    /\ SafeParse(variant, b).ok
    /\ SoldOut(CountDocuments(orders))
    /\ event' = [Response("buy", c, 400, "soldout", "ok") EXCEPT
                     !.seen = CountDocuments(orders)]
    /\ UNCHANGED <<variant, orders, now, nextId, pc, doc, seen, fresh, okJoins,
                   joinedAt, resetLog, stale, peak>>

\* Date.now(): the clock has stood still or advanced since it was last read
ClockReadings == {t \in now..(now + 1) : t <= CAPACITY + MaxTicks}

\* count < 5, and save() finds the document against the schema: catch -> 500
BuySchemaReject(c, b) ==
    /\ BuyAdmitted(c)
    /\ SafeParse(variant, b).ok
    /\ ~SoldOut(CountDocuments(orders))
    /\ ~SchemaRequiredOK(variant, b)
    /\ event' = [Response("buy", c, 500, "error", "none") EXCEPT
                     !.seen = CountDocuments(orders)]
    /\ UNCHANGED <<variant, orders, now, nextId, pc, doc, seen, fresh, okJoins,
                   joinedAt, resetLog, stale, peak>>

\* count < 5: new Order({ email }), and the write of save() is awaited
BuyConstruct(c, b) ==
    /\ BuyAdmitted(c)
    /\ SafeParse(variant, b).ok
    /\ ~SoldOut(CountDocuments(orders))
    /\ SchemaRequiredOK(variant, b)
    /\ pc' = [pc EXCEPT ![c] = "save"]
    /\ seen' = [seen EXCEPT ![c] = CountDocuments(orders)]
    /\ \E t \in ClockReadings :
          /\ now' = t
          /\ doc' = [doc EXCEPT
                 ![c] = NewOrder(0, SafeParse(variant, b).email, t)]
    /\ event' = NoEvent
    /\ peak' = Max(peak, InFlight(pc'))
    /\ UNCHANGED <<variant, orders, nextId, fresh, okJoins, joinedAt, resetLog,
                   stale>>

Idle(c) ==
    /\ pc' = [pc EXCEPT ![c] = "idle"]
    /\ doc' = [doc EXCEPT ![c] = NoOrder]
    /\ seen' = [seen EXCEPT ![c] = 0]

\* mutant of BuySaveOK: the write looks at the count again and inserts only below 5
BuySaveGuarded(c) ==
    /\ pc[c] = "save"
    /\ Idle(c)
    /\ IF CountDocuments(orders) >= CAPACITY
       THEN /\ event' = [Response("buy", c, 400, "soldout", "ok") EXCEPT
                             !.seen = seen[c]]
            /\ stale' = [stale EXCEPT ![c] = FALSE]
            /\ UNCHANGED <<orders, nextId, fresh, okJoins, joinedAt, resetLog>>
       ELSE /\ orders' = Append(orders, [doc[c] EXCEPT !.id = nextId])
            /\ nextId' = nextId + 1
            /\ event' = [Response("buy", c, 200, "success", "ok") EXCEPT
                             !.email = doc[c].email, !.seen = seen[c]]
            /\ fresh' = [fresh EXCEPT !.clean = FALSE]
            /\ okJoins' = okJoins + 1
            /\ joinedAt' = Len(orders)
            /\ resetLog' = <<>>
            /\ stale' = StaleAfterWrite(c)
    /\ UNCHANGED <<variant, now, hits, apiHits, budget, peak>>

\* the insert is written; res.json({ success: true, ... })
BuySaveOK(c) ==
    /\ pc[c] = "save"
    /\ orders' = Save(orders, [doc[c] EXCEPT !.id = nextId])
    /\ nextId' = nextId + 1
    /\ Idle(c)
    /\ event' = [Response("buy", c, 200, "success", "ok") EXCEPT
                     !.email = doc[c].email, !.seen = seen[c]]
    /\ fresh' = [fresh EXCEPT !.clean = FALSE]
    /\ okJoins' = okJoins + 1
    /\ joinedAt' = Len(orders)
    /\ resetLog' = <<>>
    /\ stale' = StaleAfterWrite(c)
    /\ UNCHANGED <<variant, now, hits, apiHits, budget, peak>>

\* the write of save() rejects: catch -> 500
BuySaveFail(c) ==
    /\ pc[c] = "save"
    /\ Idle(c)
    /\ event' = [Response("buy", c, 500, "error", "fail") EXCEPT !.seen = seen[c]]
    /\ stale' = [stale EXCEPT ![c] = FALSE]
    /\ UNCHANGED <<variant, orders, now, nextId, hits, apiHits, budget, fresh,
                   okJoins, joinedAt, resetLog, peak>>

\* -------------------------------------------------------- POST /api/reset
ResetLimited(c) ==
    /\ Accept(c)
    /\ ApiLimited(c)
    /\ event' = Response("reset", c, 429, "apilimit", "none")
    /\ UNCHANGED <<variant, orders, now, nextId, pc, doc, seen, hits,
                   fresh, okJoins, joinedAt, resetLog, stale, peak>>

ResetOK(c) ==
    /\ Accept(c)
    /\ ~ApiLimited(c)
    /\ orders' = DeleteMany(orders)
    /\ event' = Response("reset", c, 200, "reset", "ok")
    /\ fresh' = [status |-> TRUE, list |-> TRUE, clean |-> TRUE]
    /\ okJoins' = 0
    /\ joinedAt' = NoJoin
    /\ resetLog' = Append(resetLog, Len(orders))
    /\ stale' = [d \in Clients |-> pc[d] = "save"]
    /\ UNCHANGED <<variant, now, nextId, pc, doc, seen, hits, peak>>

\* part_003, part_002: deleteMany rejects inside try: catch -> 500
ResetFail(c) ==
    /\ Accept(c)
    /\ variant # "index"
    /\ event' = Response("reset", c, 500, "error", "fail")
    /\ UNCHANGED <<variant, orders, now, nextId, pc, doc, seen, hits,
                   fresh, okJoins, joinedAt, resetLog, stale, peak>>

\* index.ts: deleteMany rejects in an async handler that has no try/catch.
\* Express 5 passes the rejection to its error handler, which answers 500.
ResetFailForwarded(c) ==
    /\ Accept(c)
    /\ ~ApiLimited(c)
    /\ variant = "index"
    /\ event' = Response("reset", c, 500, "error", "fail")
    /\ UNCHANGED <<variant, orders, now, nextId, pc, doc, seen, hits,
                   fresh, okJoins, joinedAt, resetLog, stale, peak>>

\* index.ts on Express 4: the rejection is unhandled and no response is sent.
ResetFailUnanswered(c) ==
    /\ Accept(c)
    /\ ~ApiLimited(c)
    /\ variant = "index"
    /\ pc' = [pc EXCEPT ![c] = "hung"]
    /\ event' = Response("reset", c, 0, "unhandled", "fail")
    /\ UNCHANGED <<variant, orders, now, nextId, doc, seen, hits, fresh,
                   okJoins, joinedAt, resetLog, stale, peak>>

Next ==
    \/ \E c \in Clients : StatusLimited(c)
    \/ \E c \in Clients : StatusOK(c)
    \/ \E c \in Clients : StatusFail(c)
    \/ \E c \in Clients : OrdersLimited(c)
    \/ \E c \in Clients : OrdersOK(c)
    \/ \E c \in Clients : OrdersFail(c)
    \/ \E c \in Clients : BuyApiLimited(c)
    \/ \E c \in Clients : BuyRateLimited(c)
    \/ \E c \in Clients, b \in Bodies : BuyInvalid(c, b)
    \/ \E c \in Clients, b \in Bodies : BuyCountFail(c, b)
    \/ \E c \in Clients, b \in Bodies : BuySoldOut(c, b)
    \/ \E c \in Clients, b \in Bodies : BuySchemaReject(c, b)
    \/ \E c \in Clients, b \in Bodies : BuyConstruct(c, b)
    \/ \E c \in Clients : BuySaveOK(c)
    \/ \E c \in Clients : BuySaveFail(c)
    \/ \E c \in Clients : ResetLimited(c)
    \/ \E c \in Clients : ResetOK(c)
    \/ \E c \in Clients : ResetFail(c)
    \/ \E c \in Clients : ResetFailForwarded(c)
    \/ \E c \in Clients : ResetFailUnanswered(c)

Spec == Init /\ [][Next]_vars

\* ------------------------------------------------- joins served one at a time
\* The runs in which no insert and no reset is written between a join's
\* countDocuments() and that join's own insert: a join whose count is stale
\* does not get to write its insert (its save() can still reject).
BuySaveSerial(c) ==
    /\ ~stale[c]
    /\ BuySaveOK(c)

NextSerial ==
    \/ \E c \in Clients : StatusLimited(c)
    \/ \E c \in Clients : StatusOK(c)
    \/ \E c \in Clients : StatusFail(c)
    \/ \E c \in Clients : OrdersLimited(c)
    \/ \E c \in Clients : OrdersOK(c)
    \/ \E c \in Clients : OrdersFail(c)
    \/ \E c \in Clients : BuyApiLimited(c)
    \/ \E c \in Clients : BuyRateLimited(c)
    \/ \E c \in Clients, b \in Bodies : BuyInvalid(c, b)
    \/ \E c \in Clients, b \in Bodies : BuyCountFail(c, b)
    \/ \E c \in Clients, b \in Bodies : BuySoldOut(c, b)
    \/ \E c \in Clients, b \in Bodies : BuySchemaReject(c, b)
    \/ \E c \in Clients, b \in Bodies : BuyConstruct(c, b)
    \/ \E c \in Clients : BuySaveSerial(c)
    \/ \E c \in Clients : BuySaveFail(c)
    \/ \E c \in Clients : ResetLimited(c)
    \/ \E c \in Clients : ResetOK(c)
    \/ \E c \in Clients : ResetFail(c)
    \/ \E c \in Clients : ResetFailForwarded(c)
    \/ \E c \in Clients : ResetFailUnanswered(c)

SpecSerial == Init /\ [][NextSerial]_vars

\* ------------------------------------------------------------ properties
Reverse(q) == [i \in 1..Len(q) |-> q[Len(q) + 1 - i]]

\* the step is the first step of a join request of client c
JoinArrives(c) ==
    /\ pc[c] = "idle"
    /\ budget' < budget
    /\ \/ event'.op = "buy" /\ event'.client = c
       \/ pc'[c] = "save"

\* the step is the first step of a join of c with body b that the limiters let through
JoinHandled(c, b) ==
    \/ BuyInvalid(c, b)
    \/ BuyCountFail(c, b)
    \/ BuySoldOut(c, b)
    \/ BuySchemaReject(c, b)
    \/ BuyConstruct(c, b)

\* C1: in every reachable state the store holds at most CAPACITY registrations.
C1_AtMostCapacity == Len(orders) <= CAPACITY

\* C2: a join that read a count below 5 inserts when its save() is written,
\* whatever the count has become since: the write does not look at the count.
\* So two joins that both read a count below 5 both insert, and the store can
\* end above 5 (the state C2_Oversold).
C2_InsertIgnoresCurrentCount ==
    [][\A c \in Clients :
          (pc[c] = "save" /\ pc'[c] = "idle" /\ event'.store = "ok")
          => /\ seen[c] < CAPACITY
             /\ event'.kind = "success"
             /\ event'.client = c
             /\ Len(orders') = Len(orders) + 1]_vars

\* a join that read a count below 5 has just inserted, and the store holds more than 5
C2_Oversold ==
    /\ event.kind = "success"
    /\ event.seen < CAPACITY
    /\ Len(orders) > CAPACITY

\* C3 as claimed: a join handled while the store holds 5 registrations, whatever
\* its email, is answered sold out and inserts nothing.
C3_SoldOutWhateverEmail ==
    [][\A c \in Clients :
          (JoinArrives(c) /\ Len(orders) = CAPACITY
             /\ event'.code # 429 /\ event'.store # "fail")
          => (event'.kind = "soldout" /\ event'.code = 400 /\ orders' = orders)]_vars

\* C3 as amended: a join handled while the store holds 5 registrations or more
\* inserts nothing and is answered 400: sold out when its email passed the
\* parse, the validation error when it did not.
C3_SoldOutAfterValidation ==
    [][\A c \in Clients, b \in Bodies :
          (Len(orders) >= CAPACITY /\ event'.store # "fail" /\ JoinArrives(c)
             /\ JoinHandled(c, b))
          => /\ orders' = orders
             /\ pc'[c] = "idle"
             /\ event'.client = c
             /\ event'.code = 400
             /\ event'.kind =
                   IF SafeParse(variant, b).ok THEN "soldout" ELSE "validation"]_vars

\* a join with an invalid email was answered the validation error at count 5
C3_InvalidAtCapacity ==
    /\ event.op = "buy"
    /\ event.kind = "validation"
    /\ Len(orders) = CAPACITY

\* C4: every registration in the store has a non-empty email that matches the
\* validation pattern.
C4_OnlyValidEmailsStored ==
    \A i \in DOMAIN orders :
        /\ orders[i].email # <<>>
        /\ MatchIndex(orders[i].email) \/ MatchP003(orders[i].email)

\* C5: a join inserts exactly one registration, carrying the parsed email, in
\* the step that answers success, and no other step of a join changes the store.
C5_OneInsertIffSuccess ==
    [][/\ \A c \in Clients, b \in Bodies :
             (pc[c] = "idle" /\ pc'[c] = "save" /\ BuyConstruct(c, b))
             => doc'[c].email = (IF variant = "p003" THEN Trim(b.email) ELSE b.email)
       /\ (event'.op = "buy" /\ event'.kind = "success")
             => /\ Len(orders') = Len(orders) + 1
                /\ SubSeq(orders', 1, Len(orders)) = orders
                /\ pc[event'.client] = "save"
                /\ orders'[Len(orders')].email = doc[event'.client].email
                /\ orders'[Len(orders')].createdAt = doc[event'.client].createdAt
       /\ (event'.kind # "success" /\ event'.op \in {"buy", "none"})
             => orders' = orders]_vars

\* a join has just answered success and its registration is the last of the store
C5_Inserted ==
    /\ event.kind = "success"
    /\ orders # <<>>
    /\ orders[Len(orders)].email = event.email

\* fresh.status (fresh.list): a reset has completed and no status query (no
\* listing) has been answered from the store since.  fresh.clean: a reset has
\* completed and no join has inserted since.

\* C6 as claimed: the first status query answered after a completed reset
\* returns remaining 5 and soldOut false, and the first listing is empty.
C6_ResetThenFull ==
    [][/\ (event'.kind = "status" /\ fresh.status)
             => (event'.remaining = CAPACITY /\ ~event'.soldOut)
       /\ (event'.kind = "orders" /\ fresh.list) => event'.list = <<>>]_vars

\* C6 as amended: they do when no join has inserted since the reset.
C6_ResetThenFullUnlessInsert ==
    [][/\ (event'.kind = "status" /\ fresh.status /\ fresh.clean)
             => (event'.remaining = CAPACITY /\ ~event'.soldOut)
       /\ (event'.kind = "orders" /\ fresh.list /\ fresh.clean)
             => event'.list = <<>>]_vars

\* the first status query after a reset has answered 5, with a join in flight
C6_StatusAfterReset ==
    /\ event.kind = "status"
    /\ event.remaining = CAPACITY
    /\ fresh.clean
    /\ ~fresh.status
    /\ \E c \in Clients : pc[c] = "save"

C8_StatusFromCount ==
    event.kind = "status"
    => /\ event.remaining =
             (IF Len(orders) >= CAPACITY THEN 0 ELSE CAPACITY - Len(orders))
       /\ event.soldOut = (Len(orders) >= CAPACITY)
       /\ event.code = 200

\* a status query was answered from a count above 5
C8_StatusAboveCapacity ==
    /\ event.kind = "status"
    /\ Len(orders) > CAPACITY
    /\ event.remaining = 0
    /\ event.soldOut

\* C9 as claimed: the listing holds the registrations of the store, one inserted
\* later always before one inserted earlier.
C9_ListingLatestInsertFirst == event.kind = "orders" => event.list = Reverse(orders)

\* C9 as amended: the listing holds exactly the registrations of the store, as
\* many as joins have succeeded since the store was empty, and createdAt never
\* increases along it.
C9_ListingSortedByCreatedAt ==
    event.kind = "orders"
    => /\ Len(event.list) = okJoins
       /\ Len(event.list) = Len(orders)
       /\ \A i \in DOMAIN orders : \E j \in DOMAIN event.list : event.list[j] = orders[i]
       /\ \A i, j \in DOMAIN event.list :
             i < j => event.list[i].createdAt >= event.list[j].createdAt

\* a listing of registrations with distinct emails and distinct createdAt
C9_ListedNewestFirst ==
    /\ event.kind = "orders"
    /\ Len(event.list) >= 2
    /\ event.list[1].createdAt > event.list[2].createdAt
    /\ event.list[1].email # event.list[2].email

\* C10 as claimed: once the join limiter has counted 10 attempts of a client,
\* each further join of the client is refused with 429 and the limiter's message.
C10_FurtherJoinsGetBuyLimitMessage ==
    [][\A c \in Clients :
          (JoinArrives(c) /\ hits[c] >= BuyMax)
          => (event'.code = 429 /\ event'.kind = "buylimit" /\ orders' = orders)]_vars

\* C10 as amended: each further join of the client is refused with 429 before
\* the parse and the store, with the join limiter's message unless apiLimiter of
\* index.ts refused it first; a join is refused by the join limiter only then;
\* only joins are counted, each for its own client.
C10_JoinLimitPerClient ==
    [][/\ \A c \in Clients :
             JoinArrives(c)
             => /\ hits[c] >= BuyMax
                   => /\ event'.code = 429
                      /\ event'.client = c
                      /\ pc'[c] = "idle"
                      /\ orders' = orders
                      /\ \/ event'.kind = "buylimit"
                         \/ /\ event'.kind = "apilimit"
                            /\ variant = "index"
                            /\ apiHits[c] >= ApiMax
                /\ hits[c] < BuyMax => event'.kind # "buylimit"
                /\ \A d \in Clients \ {c} : hits'[d] = hits[d]
       /\ (budget' < budget /\ \A c \in Clients : ~JoinArrives(c)) => hits' = hits]_vars

\* client 1 was refused by the join limiter while client 2 is below the limit
C10_OneClientLimited ==
    /\ event.kind = "buylimit"
    /\ event.client = 1
    /\ \E d \in Clients \ {1} : hits[d] > 0 /\ hits[d] < BuyMax

\* C11: a status query answered after a join inserted into a store of c < 5
\* registrations, with no insert and no reset written since that insert, returns
\* remaining = 5 - (c + 1) and soldOut = (c + 1 >= 5).
C11_JoinVisibleToStatus ==
    (event.kind = "status" /\ joinedAt # NoJoin /\ joinedAt < CAPACITY)
    => /\ event.remaining = CAPACITY - (joinedAt + 1)
       /\ event.soldOut = (joinedAt + 1 >= CAPACITY)

\* one join into the empty store, then a status query answered 4 and not sold out
C11_FirstJoinThenStatus ==
    /\ event.kind = "status"
    /\ joinedAt = 0
    /\ event.remaining = CAPACITY - 1
    /\ ~event.soldOut

\* C12: a completed reset leaves the store empty whatever it held, 0 and more
\* than 5 registrations included; a reset that follows a reset with no insert
\* in between finds nothing to delete and leaves the store as the first left it.
C12_ResetEmptiesAndIdempotent ==
    /\ event.kind = "reset" => (orders = <<>> /\ resetLog # <<>>)
    /\ resetLog # <<>> => orders = <<>>
    /\ \A i \in DOMAIN resetLog : i > 1 => resetLog[i] = 0
    /\ DeleteMany(DeleteMany(orders)) = DeleteMany(orders)

\* two consecutive resets have completed, the first on a store that held registrations
C12_ResetTwice ==
    /\ event.kind = "reset"
    /\ Len(resetLog) = 2
    /\ resetLog[1] > 0
    /\ orders = <<>>

\* C13: the store changes only in the step of a join that answers success, which
\* adds one registration after those it holds, and in the step of a completed
\* reset, which removes them all; status and listing requests leave it as it
\* is, and every registration keeps its email and createdAt while it is stored.
C13_OnlyJoinAndResetWrite ==
    [][/\ event'.op \in {"status", "orders"} => orders' = orders
       /\ orders' # orders
             => \/ /\ event'.kind = "success"
                   /\ Len(orders') = Len(orders) + 1
                   /\ \A i \in DOMAIN orders :
                         /\ orders'[i].email = orders[i].email
                         /\ orders'[i].createdAt = orders[i].createdAt
                \/ /\ event'.kind = "reset"
                   /\ orders' = <<>>]_vars

\* a listing was answered after a join of the run inserted next to earlier
\* registrations, and the store holds them all
C13_ListedAfterInsert ==
    /\ event.kind = "orders"
    /\ joinedAt # NoJoin
    /\ joinedAt > 0
    /\ Len(orders) = joinedAt + 1
    /\ Len(event.list) = Len(orders)

\* C14 (under SpecSerial): when no insert and no reset is written between a
\* join's count read and its own insert, the store never holds more than 5
\* registrations, and each insert takes it from the count the join read to one more.
C14_SerialAtMostCapacity ==
    /\ CountDocuments(orders) <= CAPACITY
    /\ event.kind = "success"
          => (event.seen < CAPACITY /\ Len(orders) = event.seen + 1)

\* a join of the run filled the store, and the join that followed was answered sold out
C14_SerialFilledThenSoldOut ==
    /\ event.kind = "soldout"
    /\ joinedAt = CAPACITY - 1
    /\ Len(orders) = CAPACITY

\* C15: when at most K joins were ever between their count read and their
\* insert at the same time (K >= 1), the store holds at most 5 + (K - 1)
\* registrations; peak is the least such K of the run so far.
C15_OversellBoundedByConcurrency ==
    /\ peak <= NumClients
    /\ CountDocuments(orders) <= CAPACITY + (Max(peak, 1) - 1)

\* two joins overlapped and the store holds one registration more than 5
C15_OversoldByOverlap ==
    /\ peak = 2
    /\ Len(orders) = CAPACITY + 1
    /\ event.kind = "success"

\* C16: a step that is not a completed reset never lowers the count; so from a
\* state whose status is sold out (one in which a status query has returned
\* soldOut = true, or would), every step other than a completed reset leads to
\* a state whose status is soldOut = true and remaining = 0, and a status query
\* answered in that step returns just that.
C16_SoldOutUntilReset ==
    [][event'.kind # "reset"
          => /\ CountDocuments(orders') >= CountDocuments(orders)
             /\ StatusOf(CountDocuments(orders)).soldOut
                   => /\ StatusOf(CountDocuments(orders')).soldOut
                      /\ StatusOf(CountDocuments(orders')).remaining = 0
                      /\ event'.kind = "status"
                            => (event'.soldOut /\ event'.remaining = 0)]_vars

\* a status query was answered sold out after a join inserted into the full store
C16_SoldOutAfterFurtherInsert ==
    /\ event.kind = "status"
    /\ event.soldOut
    /\ event.remaining = 0
    /\ joinedAt = CAPACITY
    /\ resetLog = <<>>

Registered(email) == \E i \in DOMAIN orders : orders[i].email = email

\* C18: a join whose email passes the parse and is registered already, handled
\* while the store holds fewer than 5 registrations, goes on to save() as any
\* other join does, and when its write resolves the store holds one more
\* registration with that email and the join is answered success.
C18_RegisteredEmailJoinsAgain ==
    [][/\ \A c \in Clients :
             (/\ JoinArrives(c)
              /\ event'.code # 429
              /\ event'.store # "fail"
              /\ CountDocuments(orders) < CAPACITY)
             => \A b \in Bodies :
                   (/\ SafeParse(variant, b).ok
                    /\ Registered(SafeParse(variant, b).email)
                    /\ JoinHandled(c, b))
                   => /\ pc'[c] = "save"
                      /\ doc'[c].email = SafeParse(variant, b).email
       /\ \A c \in Clients :
             (/\ pc[c] = "save"
              /\ pc'[c] = "idle"
              /\ event'.store = "ok"
              /\ Registered(doc[c].email))
             => /\ event'.kind = "success"
                /\ Len(orders') = Len(orders) + 1
                /\ orders'[Len(orders')].email = doc[c].email
                /\ \A i \in DOMAIN orders : orders'[i] = orders[i]]_vars

\* a join has just inserted an email that an earlier registration of the store
\* carries, and the store is within its 5 units
C18_SameEmailTwice ==
    /\ event.kind = "success"
    /\ Len(orders) <= CAPACITY
    /\ orders[Len(orders)].email = event.email
    /\ \E i \in 1..(Len(orders) - 1) : orders[i].email = event.email

====
